---- MODULE Spec2Model ----
(***************************************************************************)
(* Model of the Weibo comment Collector (src/src/weibo_scraper.py) and of  *)
(* the Analyzer (src/src/analyze_comments.py).                             *)
(*                                                                         *)
(* Four specifications share the module:                                   *)
(*   SpecFetch  fetch_comments applied to one HTTP outcome                  *)
(*   SpecCrawl  crawl, page by page, over a two-file filesystem            *)
(*   SpecCsv    the CSV written by crawl read back by load_comments        *)
(*   SpecMain   the Analyzer driver and plot_topic_distribution            *)
(*                                                                         *)
(* Text is a sequence of one-character strings, so that CSV quoting and    *)
(* parsing are computed character by character.                            *)
(***************************************************************************)
EXTENDS Integers, Sequences, FiniteSets, TLC

VARIABLES
    \* ---- fetch_comments on one response (SpecFetch)
    fPc, fResp, fOut,
    \* ---- crawl (SpecCrawl)
    pc, pages, out_file, page, comments, requests, pageResults, error,
    fs, fsBefore, lastGood,
    \* ---- CSV round trip (SpecCsv)
    cPc, cIn, cFile, cLoaded,
    \* ---- Analyzer (SpecMain)
    mPc, entry, numTopics, topicIdx, run, dirExists, figures, trace,
    reported, failedAt

fetchVars == <<fPc, fResp, fOut>>
crawlVars == <<pc, pages, out_file, page, comments, requests, pageResults,
               error, fs, fsBefore, lastGood>>
csvVars   == <<cPc, cIn, cFile, cLoaded>>
mainVars  == <<mPc, entry, numTopics, topicIdx, run, dirExists, figures,
               trace, reported, failedAt>>
vars      == <<fetchVars, crawlVars, csvVars, mainVars>>

(***************************************************************************)
(* Bounds of the model.                                                    *)
(***************************************************************************)
MaxItems  == 3      \* items in one page of a response
MaxPages  == 2      \* largest `pages` argument of crawl
MaxRows   == 2      \* comments in a list that is written and loaded
MaxTopics == 4      \* largest topic count of a fitted model
MaxRuns   == 3      \* Analyzer runs that write into the same directory

(***************************************************************************)
(* Sequence helpers.                                                       *)
(***************************************************************************)
RECURSIVE Flatten(_)
Flatten(ss) == IF ss = <<>> THEN <<>> ELSE Head(ss) \o Flatten(Tail(ss))

RECURSIVE SumLen(_)
SumLen(ss) == IF ss = <<>> THEN 0 ELSE Len(Head(ss)) + SumLen(Tail(ss))

SeqsUpTo(S, n) == UNION {[1..k -> S] : k \in 0..n}

UpTo(n) == [i \in 1..n |-> i]

(***************************************************************************)
(* JSON values, as resp.json() returns them: a tagged record per Python    *)
(* type.  A dict is a function over Keys; Absent marks a key the dict      *)
(* does not hold.                                                          *)
(***************************************************************************)
Keys == {"data", "text", "ok"}

Absent    == [t |-> "absent"]
JNull     == [t |-> "null"]
JStr(s)   == [t |-> "str", s |-> s]
JNum(s)   == [t |-> "num", s |-> s]
JArr(a)   == [t |-> "arr", a |-> a]
JObj(o)   == [t |-> "obj", o |-> o]

NoKeys == [k \in Keys |-> Absent]
EmptyDict == JObj(NoKeys)
EmptyList == JArr(<<>>)
EmptyStr  == JStr(<<>>)

\* dict.get(key, default)
DictGet(d, key, default) ==
    IF d.o[key] = Absent THEN default ELSE d.o[key]

(***************************************************************************)
(* fetch_comments (weibo_scraper.py:14-44).  An HTTP outcome is            *)
(*   net    "ok" | "timeout" | "refused"   what requests.get met           *)
(*   status the HTTP status code                                           *)
(*   json   whether the body parses as JSON                                *)
(*   body   the parsed JSON value                                          *)
(* The result is either the returned list or the exception raised.         *)
(***************************************************************************)
Return(v)  == [ok |-> TRUE,  err |-> "",  val |-> v]
Raise(e)   == [ok |-> FALSE, err |-> e,   val |-> <<>>]

HttpResponse(net, status, json, body) ==
    [net |-> net, status |-> status, json |-> json, body |-> body]

\* `for item in items`: the elements a Python iteration yields, or the
\* TypeError of a value that is not iterable.
Iterate(items) ==
    CASE items.t = "arr" -> Return(items.a)
      [] items.t = "obj" ->
            LET ks == {k \in Keys : items.o[k] # Absent}
            IN  Return([i \in 1..Cardinality(ks) |-> JStr(<<"k">>)])
      [] items.t = "str" -> Return([i \in 1..Len(items.s) |-> JStr(<<items.s[i]>>)])
      [] OTHER -> Raise("TypeError")

\* item.get("text", "")
ItemText(item) == DictGet(item, "text", EmptyStr)

\* [item.get("text", "") for item in items]
ItemTextsStrict(items) ==
    LET it == Iterate(items)
    IN  IF ~it.ok THEN it
        ELSE IF \E i \in 1..Len(it.val) : it.val[i].t # "obj"
             THEN Raise("AttributeError")
             ELSE IF \E i \in 1..Len(it.val) : it.val[i].o["text"] = Absent
                  THEN Raise("KeyError")
                  ELSE Return([i \in 1..Len(it.val) |-> it.val[i].o["text"]])

ItemTexts(items) ==
    LET it == Iterate(items)
    IN  IF ~it.ok THEN it
        ELSE IF \E i \in 1..Len(it.val) : it.val[i].t # "obj"
             THEN Raise("AttributeError")
             ELSE Return([i \in 1..Len(it.val) |-> ItemText(it.val[i])])

\* data.get("data", {}).get("data", [])
NestedItemsStrict(data) ==
    IF data.t # "obj" THEN Raise("AttributeError")
    ELSE IF data.o["data"] = Absent THEN Raise("KeyError")
    ELSE LET inner == data.o["data"]
         IN  IF inner.t # "obj" THEN Raise("AttributeError")
             ELSE IF inner.o["data"] = Absent THEN Raise("KeyError")
             ELSE Return(inner.o["data"])

NestedItems(data) ==
    IF data.t # "obj" THEN Raise("AttributeError")
    ELSE LET inner == DictGet(data, "data", EmptyDict)
         IN  IF inner.t # "obj" THEN Raise("AttributeError")
             ELSE Return(DictGet(inner, "data", EmptyList))

fetch_comments(resp) ==
    IF resp.net # "ok" THEN Raise("RequestException")
    ELSE IF resp.status >= 400 THEN Raise("HTTPError")
    ELSE IF ~resp.json THEN Raise("JSONDecodeError")
    ELSE LET items == NestedItems(resp.body)
         IN  IF ~items.ok THEN items ELSE ItemTexts(items.val)

(***************************************************************************)
(* The responses fetch_comments is applied to.                             *)
(***************************************************************************)
hello == <<"h", "e", "l", "l", "o">>
world == <<"w", "o", "r", "l", "d">>

Item(text) == JObj([NoKeys EXCEPT !["text"] = text])
ItemNoText == JObj([NoKeys EXCEPT !["ok"] = JNum(<<"1">>)])

\* items of the expected schema: an object, with or without a "text" string
SchemaItems == {Item(JStr(hello)), Item(JStr(world)), Item(EmptyStr),
                ItemNoText, EmptyDict}

Page(items) == JObj([NoKeys EXCEPT !["data"] =
                        JObj([NoKeys EXCEPT !["data"] = items])])
PageOk(items) == JObj([NoKeys EXCEPT !["ok"] = JNum(<<"1">>),
                        !["data"] = JObj([NoKeys EXCEPT !["data"] = items])])

\* {"data": {"data": [item, ...]}}, with or without further keys
ShapedBodies == {Page(JArr(a)) : a \in SeqsUpTo(SchemaItems, MaxItems)}
                \cup {PageOk(JArr(a)) : a \in SeqsUpTo(SchemaItems, 1)}

\* valid JSON that lacks a key of the schema
NoDataKey   == JObj([NoKeys EXCEPT !["ok"] = JNum(<<"0">>)])
NoNestedKey == JObj([NoKeys EXCEPT !["data"] = EmptyDict])
MissingKeyBodies == {EmptyDict, NoDataKey, NoNestedKey}

\* valid JSON with a value of the wrong type where a container is expected
WrongTypeBodies ==
    { JNull, JArr(<<>>), JStr(hello), JNum(<<"1">>),
      JObj([NoKeys EXCEPT !["data"] = JNull]),
      JObj([NoKeys EXCEPT !["data"] = JArr(<<>>)]),
      JObj([NoKeys EXCEPT !["data"] = JStr(hello)]),
      Page(JNull), Page(JNum(<<"1">>)),
      Page(JArr(<<JStr(hello)>>)), Page(JArr(<<Item(JStr(hello)), JNull>>)),
      Page(JArr(<<JArr(<<>>)>>)) }

\* other departures from the schema, which Python's duck typing lets through
\* or stops on the first element
OddBodies ==
    { Page(EmptyStr), Page(EmptyDict), Page(JStr(hello)), Page(NoDataKey),
      Page(JArr(<<Item(JNull)>>)), Page(JArr(<<Item(JNum(<<"7">>))>>)) }

JsonBodies == ShapedBodies \cup MissingKeyBodies \cup WrongTypeBodies
              \cup OddBodies

Responses ==
    {HttpResponse("ok", 200, TRUE, b) : b \in JsonBodies}
    \cup {HttpResponse("ok", s, TRUE, EmptyDict) : s \in {403, 404, 500}}
    \cup {HttpResponse("ok", 500, FALSE, JNull),
          HttpResponse("ok", 200, FALSE, JNull),
          HttpResponse("timeout", 0, FALSE, JNull),
          HttpResponse("refused", 0, FALSE, JNull)}

(***************************************************************************)
(* The CSV file crawl writes (weibo_scraper.py:65-69): csv.writer in its   *)
(* default dialect (delimiter ",", quote character ", doubled quotes,      *)
(* QUOTE_MINIMAL, line terminator CR LF), on a file opened with mode "w"   *)
(* and newline="".  A file's data is its sequence of characters.           *)
(***************************************************************************)
DQ == "\""
CR == "\r"
LF == "\n"
COMMA == ","

OutFiles == {"data/comments.csv", "data/other.csv"}
NoFile   == [exists |-> FALSE, data |-> <<>>]
File(d)  == [exists |-> TRUE,  data |-> d]
NoCrawl  == [done |-> FALSE, comments |-> <<>>]
Crawled(c) == [done |-> TRUE, comments |-> c]

\* the text csv.writer writes for a field: None is the empty string, a
\* string is itself, a number is str(number)
FieldText(v) ==
    CASE v.t = "null" -> <<>>
      [] v.t = "str"  -> v.s
      [] v.t = "num"  -> v.s

RECURSIVE DoubleQuotes(_)
DoubleQuotes(s) ==
    IF s = <<>> THEN <<>>
    ELSE (IF Head(s) = DQ THEN <<DQ, DQ>> ELSE <<Head(s)>>)
         \o DoubleQuotes(Tail(s))

NeedsQuote(s) == \E i \in 1..Len(s) : s[i] \in {COMMA, DQ, CR, LF}

\* writer.writerow([v]): a one-field row; a lone empty field is written ""
writerow(v) ==
    LET s == FieldText(v)
    IN  (IF s = <<>> \/ NeedsQuote(s)
         THEN <<DQ>> \o DoubleQuotes(s) \o <<DQ>>
         ELSE s) \o <<CR, LF>>

commentHeader == JStr(<<"c", "o", "m", "m", "e", "n", "t">>)

RECURSIVE WriteRows(_)
WriteRows(cs) ==
    IF cs = <<>> THEN <<>> ELSE writerow(Head(cs)) \o WriteRows(Tail(cs))

\* the with-block of crawl: the header row, then one row per comment
WriteCsvNoHeader(cs) == WriteRows(cs)

WriteCsv(cs) == writerow(commentHeader) \o WriteRows(cs)

(***************************************************************************)
(* load_comments (analyze_comments.py:17-20): pandas.read_csv with its     *)
(* defaults, then df["comment"].dropna().                                  *)
(***************************************************************************)
\* pandas' tokenizer: the rows of a file, each a sequence of fields; blank
\* lines are skipped; a quoted field may hold commas and line breaks.
\*   st: "record" (start of a line), "field" (start of a field after a
\*   comma), "in" (unquoted field), "quoted", "quote" (a quote met inside a
\*   quoted field)
RECURSIVE Tokenize(_, _, _, _, _, _)
Tokenize(d, i, st, fld, row, rows) ==
    IF i > Len(d)
    THEN IF st = "record" THEN rows ELSE Append(rows, Append(row, fld))
    ELSE LET c == d[i]
             \* CR LF is one line terminator
             nl == IF c = CR /\ i < Len(d) /\ d[i + 1] = LF THEN i + 2 ELSE i + 1
         IN  CASE st \in {"record", "field", "in", "quote"} /\ c \in {CR, LF} ->
                    IF st = "record"
                    THEN Tokenize(d, nl, "record", <<>>, <<>>, rows)
                    ELSE Tokenize(d, nl, "record", <<>>, <<>>,
                                  Append(rows, Append(row, fld)))
               [] st \in {"record", "field", "in", "quote"} /\ c = COMMA ->
                    Tokenize(d, i + 1, "field", <<>>, Append(row, fld), rows)
               [] st \in {"record", "field"} /\ c = DQ ->
                    Tokenize(d, i + 1, "quoted", <<>>, row, rows)
               [] st = "quoted" /\ c = DQ ->
                    Tokenize(d, i + 1, "quote", fld, row, rows)
               [] st = "quoted" /\ c # DQ ->
                    Tokenize(d, i + 1, "quoted", Append(fld, c), row, rows)
               [] st = "quote" /\ c = DQ ->
                    Tokenize(d, i + 1, "quoted", Append(fld, c), row, rows)
               [] OTHER ->
                    Tokenize(d, i + 1, "in", Append(fld, c), row, rows)

ParseRows(d) == Tokenize(d, 1, "record", <<>>, <<>>, <<>>)

\* the strings read_csv takes for a missing value (pandas' default
\* na_values; keep_default_na and na_filter are left at True)
STR_NA_VALUES ==
    { <<>>, <<"N", "A">>, <<"N", "a", "N">>, <<"n", "a", "n">>,
      <<"n", "u", "l", "l">>, <<"N", "U", "L", "L">>, <<"N", "/", "A">>,
      <<"n", "/", "a">>, <<"#", "N", "/", "A">>, <<"#", "N", "A">>,
      <<"<", "N", "A", ">">>, <<"N", "o", "n", "e">>, <<"-", "N", "a", "N">>,
      <<"-", "n", "a", "n">> }

Digit == [c \in {"0", "1", "2", "3", "4", "5", "6", "7", "8", "9"} |->
            CASE c = "0" -> 0 [] c = "1" -> 1 [] c = "2" -> 2 [] c = "3" -> 3
              [] c = "4" -> 4 [] c = "5" -> 5 [] c = "6" -> 6 [] c = "7" -> 7
              [] c = "8" -> 8 [] c = "9" -> 9]

IsInteger(s) == s # <<>> /\ \A i \in 1..Len(s) : s[i] \in DOMAIN Digit

RECURSIVE IntValue(_, _)
IntValue(s, acc) ==
    IF s = <<>> THEN acc ELSE IntValue(Tail(s), 10 * acc + Digit[Head(s)])

NaN == [t |-> "nan"]
PyInt(n)   == [t |-> "int", n |-> n]
PyFloat(n) == [t |-> "float", n |-> n]

RECURSIVE IndexOf(_, _, _)
IndexOf(row, x, i) ==
    IF i > Len(row) THEN 0
    ELSE IF row[i] = x THEN i ELSE IndexOf(row, x, i + 1)

RECURSIVE DropNa(_)
DropNa(col) ==
    IF col = <<>> THEN <<>>
    ELSE (IF Head(col) = NaN THEN <<>> ELSE <<Head(col)>>) \o DropNa(Tail(col))

\* the cells of column k: a short row is filled with a missing value, a
\* string of STR_NA_VALUES is a missing value
RawColumn(body, k) ==
    [r \in 1..Len(body) |->
        IF k > Len(body[r]) \/ body[r][k] \in STR_NA_VALUES
        THEN NaN ELSE JStr(body[r][k])]

\* read_csv's type inference over a column: when every value present is an
\* integer the column is numeric (int64, or float64 beside a missing
\* value); otherwise the column keeps its strings
InferColumn(col) ==
    LET present == {r \in 1..Len(col) : col[r] # NaN}
        hasNa   == \E r \in 1..Len(col) : col[r] = NaN
    IN  IF present # {} /\ \A r \in present : IsInteger(col[r].s)
        THEN [r \in 1..Len(col) |->
                IF col[r] = NaN THEN NaN
                ELSE IF hasNa THEN PyFloat(IntValue(col[r].s, 0))
                     ELSE PyInt(IntValue(col[r].s, 0))]
        ELSE col

load_comments(d) ==
    LET rows == ParseRows(d)
    IN  IF rows = <<>> THEN Raise("EmptyDataError")
        ELSE LET hdr  == rows[1]
                 body == Tail(rows)
                 k    == IndexOf(hdr, commentHeader.s, 1)
             IN  IF \E r \in 1..Len(body) : Len(body[r]) > Len(hdr)
                 THEN Raise("ParserError")
                 ELSE IF k = 0 THEN Raise("KeyError")
                 ELSE Return(DropNa(InferColumn(RawColumn(body, k))))

(***************************************************************************)
(* SpecCsv: a list of comments written by crawl's with-block and read back *)
(* by load_comments.  None stands for a missing value (a "text" of null).  *)
(***************************************************************************)
CommentValues ==
    { JStr(hello), JStr(world), EmptyStr, JNull,
      JStr(<<"N", "A">>), JStr(<<"n", "u", "l", "l">>),
      JStr(<<"0", "0", "7">>), JStr(<<"a", COMMA, "b">>),
      JStr(<<DQ, "h", "i", DQ>>), JStr(<<"a", LF, "b">>) }

(***************************************************************************)
(* SpecFetch: one call of fetch_comments.                                  *)
(***************************************************************************)
FetchIdle == /\ fPc = "idle" /\ fResp = HttpResponse("ok", 200, TRUE, EmptyDict)
             /\ fOut = Return(<<>>)
CrawlIdle == /\ pc = "idle" /\ pages = 0 /\ out_file = "data/comments.csv"
             /\ page = 1 /\ comments = <<>> /\ requests = <<>>
             /\ pageResults = <<>> /\ error = ""
             /\ fs = [f \in OutFiles |-> NoFile]
             /\ fsBefore = fs
             /\ lastGood = [f \in OutFiles |-> NoCrawl]
CsvIdle   == /\ cPc = "idle" /\ cIn = <<>> /\ cFile = <<>> /\ cLoaded = Return(<<>>)
MainIdle  == /\ mPc = "idle" /\ entry = "main" /\ numTopics = 0 /\ topicIdx = 0
             /\ run = 0 /\ dirExists = FALSE
             /\ figures = [sentiment |-> 0, wordcloud |-> 0,
                           topic |-> [i \in 0..(MaxTopics - 1) |-> 0]]
             /\ trace = <<>> /\ reported = FALSE /\ failedAt = ""

InitFetch == /\ fPc = "call" /\ fResp \in Responses /\ fOut = Return(<<>>)
             /\ CrawlIdle /\ CsvIdle /\ MainIdle

FetchCall == /\ fPc = "call"
             /\ fOut' = fetch_comments(fResp)
             /\ fPc' = IF fOut'.ok THEN "returned" ELSE "raised"
             /\ UNCHANGED <<fResp, crawlVars, csvVars, mainVars>>

NextFetch == FetchCall

SpecFetch == InitFetch /\ [][NextFetch]_vars

\* the expected schema {"data": {"data": [{"text": "..."}, ...]}}: the
\* nested list holds objects, each with a string under "text" or no "text"
IsSchemaItem(x) ==
    /\ x.t = "obj"
    /\ (x.o["text"] = Absent \/ x.o["text"].t = "str")

IsShaped(b) ==
    /\ b.t = "obj"
    /\ b.o["data"].t = "obj"
    /\ b.o["data"].o["data"].t = "arr"
    /\ \A i \in 1..Len(b.o["data"].o["data"].a) :
            IsSchemaItem(b.o["data"].o["data"].a[i])

GoodHttp(r) == r.net = "ok" /\ r.status < 400 /\ r.json

\* C1: on a response of the expected schema fetch_comments returns one
\* string per item of the nested list, in list order: the item's "text",
\* or the empty string when the item has no "text".
C1_OneTextPerItem ==
    (fPc # "call" /\ GoodHttp(fResp) /\ IsShaped(fResp.body)) =>
        LET items == fResp.body.o["data"].o["data"].a
        IN  /\ fOut.ok
            /\ Len(fOut.val) = Len(items)
            /\ \A i \in 1..Len(items) :
                 /\ fOut.val[i].t = "str"
                 /\ fOut.val[i] = IF items[i].o["text"] = Absent
                                  THEN EmptyStr ELSE items[i].o["text"]

C1_Witness ==
    /\ fPc = "returned" /\ GoodHttp(fResp) /\ IsShaped(fResp.body)
    /\ LET items == fResp.body.o["data"].o["data"].a
       IN  /\ Len(items) = 3
           /\ items[1].o["text"] = JStr(world)
           /\ items[2].o["text"] = Absent
           /\ items[3].o["text"] = JStr(hello)
           /\ fOut.val = <<JStr(world), EmptyStr, JStr(hello)>>

\* a body that lacks a key of the schema, every value present being of the
\* expected type
LacksKey(b) ==
    /\ b.t = "obj"
    /\ \/ b.o["data"] = Absent
       \/ b.o["data"].t = "obj" /\ b.o["data"].o["data"] = Absent

\* a body with a value of the wrong type where the schema has a container
HasWrongType(b) ==
    \/ b.t # "obj"
    \/ b.o["data"].t \notin {"absent", "obj"}
    \/ /\ b.o["data"].t = "obj"
       /\ \/ b.o["data"].o["data"].t \in {"null", "num"}
          \/ /\ b.o["data"].o["data"].t = "arr"
             /\ \E i \in 1..Len(b.o["data"].o["data"].a) :
                    b.o["data"].o["data"].a[i].t # "obj"

\* C6 as stated: valid JSON that does not match the expected schema makes
\* fetch_comments raise.
C6_MismatchRaises ==
    (fPc # "call" /\ GoodHttp(fResp) /\ ~IsShaped(fResp.body)) => ~fOut.ok

\* C6 as amended: a body that only lacks a key of the schema is a page of
\* zero comments, returned without error; a body with a value of the wrong
\* type makes fetch_comments raise.
C6_MissingKeyIsEmptyPage ==
    (fPc # "call" /\ GoodHttp(fResp)) =>
        /\ LacksKey(fResp.body) => fOut = Return(<<>>)
        /\ HasWrongType(fResp.body) => (~fOut.ok /\ fPc = "raised")

C6_Witness ==
    /\ fPc = "returned" /\ GoodHttp(fResp)
    /\ fResp.body = NoDataKey /\ fOut = Return(<<>>)

InitCsv == /\ cPc = "write" /\ cIn \in SeqsUpTo(CommentValues, MaxRows)
           /\ cFile = <<>> /\ cLoaded = Return(<<>>)
           /\ FetchIdle /\ CrawlIdle /\ MainIdle

CsvWriteStep == /\ cPc = "write"
                /\ cFile' = WriteCsv(cIn)
                /\ cPc' = "load"
                /\ UNCHANGED <<cIn, cLoaded, fetchVars, crawlVars, mainVars>>

CsvLoadStep == /\ cPc = "load"
               /\ cLoaded' = load_comments(cFile)
               /\ cPc' = "loaded"
               /\ UNCHANGED <<cIn, cFile, fetchVars, crawlVars, mainVars>>

NextCsv == CsvWriteStep \/ CsvLoadStep

SpecCsv == InitCsv /\ [][NextCsv]_vars

\* the comments that are neither empty nor missing, in their order
KeepNonEmpty(cs) == SelectSeq(cs, LAMBDA v : v.t = "str" /\ v.s # <<>>)

\* C3 as stated: load_comments returns exactly the rows whose comment is
\* neither empty nor missing, in row order, as the strings they were.
C3_LoadKeepsNonEmptyRows ==
    cPc = "loaded" => cLoaded = Return(KeepNonEmpty(cIn))

\* C4 as stated: a list without empty entries, written by crawl's CSV
\* writer and read by load_comments, comes back as the same list.
C4_RoundTrip ==
    (cPc = "loaded" /\ \A i \in 1..Len(cIn) : cIn[i].t = "str" /\ cIn[i].s # <<>>)
        => cLoaded = Return(cIn)

(***************************************************************************)
(* SpecCrawl: crawl (weibo_scraper.py:47-69), one step per page fetch and  *)
(* one for the with-block that writes the file.                            *)
(*   pc          "idle" | "fetching" | "done" | "failed"                   *)
(*   page        the loop variable; requests: the pages requested so far   *)
(*   fs          the files; fsBefore: the files when crawl was called      *)
(*   pageResults what each fetch returned; lastGood: per file, the         *)
(*               comments of the last crawl that returned normally         *)
(* The write step is taken to succeed: the directory exists and every      *)
(* comment can be encoded.                                                 *)
(***************************************************************************)
cA == JStr(<<"a">>)
cB == JStr(<<"b", COMMA>>)

\* what the server may answer to a page request
PageResponses ==
    { HttpResponse("ok", 200, TRUE, Page(JArr(<<>>))),
      HttpResponse("ok", 200, TRUE, Page(JArr(<<Item(cA)>>))),
      HttpResponse("ok", 200, TRUE, Page(JArr(<<Item(cB), ItemNoText>>))),
      HttpResponse("ok", 200, TRUE, NoDataKey),
      HttpResponse("ok", 200, TRUE, Page(JNull)),
      HttpResponse("ok", 200, FALSE, JNull),
      HttpResponse("ok", 500, FALSE, JNull),
      HttpResponse("timeout", 0, FALSE, JNull) }

InitCrawl == /\ CrawlIdle /\ FetchIdle /\ CsvIdle /\ MainIdle

\* crawl is called: comments = [], the loop starts at page 1
CrawlStartOpening(n, f) ==
    /\ pc \in {"idle", "done", "failed"}
    /\ pages' = n /\ out_file' = f
    /\ page' = 1 /\ comments' = <<>> /\ requests' = <<>> /\ pageResults' = <<>>
    /\ error' = "" /\ fsBefore' = fs
    /\ pc' = "fetching"
    /\ fs' = [fs EXCEPT ![f] = File(<<>>)]
    /\ UNCHANGED <<lastGood, fetchVars, csvVars, mainVars>>

CrawlStart(n, f) ==
    /\ pc \in {"idle", "done", "failed"}
    /\ pages' = n /\ out_file' = f
    /\ page' = 1 /\ comments' = <<>> /\ requests' = <<>> /\ pageResults' = <<>>
    /\ error' = "" /\ fsBefore' = fs
    /\ pc' = "fetching"
    /\ UNCHANGED <<fs, lastGood, fetchVars, csvVars, mainVars>>

\* one turn of the loop: fetch_comments(post_id, cookie, page); what it
\* returns extends comments, what it raises leaves crawl
CrawlFetchSwallow(resp) ==
    /\ pc = "fetching" /\ page <= pages
    /\ requests' = Append(requests, page)
    /\ LET r == fetch_comments(resp)
       IN  /\ comments' = comments \o r.val
           /\ pageResults' = Append(pageResults, r.val)
           /\ page' = page + 1
           /\ error' = IF r.ok THEN error ELSE r.err
           /\ UNCHANGED pc
    /\ UNCHANGED <<pages, out_file, fs, fsBefore, lastGood,
                   fetchVars, csvVars, mainVars>>

CrawlFetch(resp) ==
    /\ pc = "fetching" /\ page <= pages
    /\ requests' = Append(requests, page)
    /\ LET r == fetch_comments(resp)
       IN  IF r.ok
           THEN /\ comments' = comments \o r.val
                /\ pageResults' = Append(pageResults, r.val)
                /\ page' = page + 1
                /\ UNCHANGED <<pc, error>>
           ELSE /\ pc' = "failed"
                /\ error' = r.err
                /\ UNCHANGED <<comments, pageResults, page>>
    /\ UNCHANGED <<pages, out_file, fs, fsBefore, lastGood,
                   fetchVars, csvVars, mainVars>>

\* open(out_file, "w", ...): the file is created or truncated, then holds
\* what is written
OpenAppend(old, text) == File(old.data \o text)

OpenWrite(old, text) == File(text)

\* the loop is over: the with-block writes the file and crawl returns
CrawlWrite ==
    /\ pc = "fetching" /\ page > pages
    /\ fs' = [fs EXCEPT ![out_file] = OpenWrite(fs[out_file], WriteCsv(comments))]
    /\ lastGood' = [lastGood EXCEPT ![out_file] = Crawled(comments)]
    /\ pc' = "done"
    /\ UNCHANGED <<pages, out_file, page, comments, requests, pageResults,
                   error, fsBefore, fetchVars, csvVars, mainVars>>

NextCrawl ==
    \/ \E n \in 0..MaxPages, f \in OutFiles : CrawlStart(n, f)
    \/ \E resp \in PageResponses : CrawlFetch(resp)
    \/ CrawlWrite

SpecCrawl == InitCrawl /\ [][NextCrawl]_vars

\* the rows of a CSV file holding the header and the comments cs
RowsOf(cs) == <<<<commentHeader.s>>>> \o [i \in 1..Len(cs) |-> <<FieldText(cs[i])>>]

\* C2: a crawl whose fetches all succeed has requested pages 1..N, each
\* once and in order, and its CSV holds the header row then one row per
\* fetched comment in page-then-item order, duplicates included.
C2_PagesThenRows ==
    pc = "done" =>
        /\ requests = UpTo(pages)
        /\ Len(pageResults) = pages
        /\ comments = Flatten(pageResults)
        /\ fs[out_file].exists
        /\ ParseRows(fs[out_file].data) = RowsOf(Flatten(pageResults))
        /\ Len(ParseRows(fs[out_file].data)) = 1 + SumLen(pageResults)

C2_Witness ==
    /\ pc = "done" /\ pages = 2
    /\ pageResults = <<<<cB, EmptyStr>>, <<cA>>>>
    /\ ParseRows(fs[out_file].data)
         = <<<<commentHeader.s>>, <<cB.s>>, <<<<>>>>, <<cA.s>>>>

C2_WitnessDuplicates ==
    /\ pc = "done" /\ comments = <<cA, cA>>
    /\ Len(ParseRows(fs[out_file].data)) = 3

\* C5: a fetch that fails on page k ends the crawl with that error: the
\* requests made are exactly pages 1..k, no fetch and no write can follow,
\* and the comments of the earlier pages are written nowhere.
C5_FailureEndsCrawl ==
    /\ requests = UpTo(Len(requests))
    /\ error # "" <=> pc = "failed"
    /\ pc = "failed" =>
        /\ page <= pages
        /\ requests = UpTo(page)
        /\ comments = Flatten(pageResults) /\ Len(pageResults) = page - 1
        /\ ~ENABLED ((\E resp \in PageResponses : CrawlFetch(resp)) \/ CrawlWrite)
        /\ comments # <<>> => fs[out_file] = fsBefore[out_file]

C5_Witness ==
    /\ pc = "failed" /\ pages = 2 /\ page = 2
    /\ requests = <<1, 2>> /\ comments = <<cA>>
    /\ error = "HTTPError"

C10_FileUntouchedUntilWrite ==
    pc \in {"fetching", "failed"} => fs = fsBefore

C10_Witness ==
    /\ pc = "failed" /\ page = 2 /\ comments # <<>>
    /\ fsBefore[out_file].exists /\ fs[out_file] = fsBefore[out_file]

C10_WitnessAbsent ==
    /\ pc = "failed" /\ page = 2
    /\ ~fsBefore[out_file].exists /\ ~fs[out_file].exists

(***************************************************************************)
(* SpecMain: the Analyzer driver main (analyze_comments.py:80-88) and      *)
(* plot_topic_distribution (65-77), called by main or on its own, all on   *)
(* the directory "figures".                                                *)
(*   mPc       "idle", the stage about to run, "topic_loop", "print",      *)
(*             "done" or "failed"                                          *)
(*   run       the number of the current call                              *)
(*   figures   per file name, the call that last wrote it (0: no file)     *)
(*   trace     the stages this call has completed, in order                *)
(* What a library call computes is left out; that it may raise is kept.    *)
(***************************************************************************)
NUM_TOPICS == 3

StageOrder == << "load_comments", "segment_comments", "sentiment_scores",
                 "plot_sentiment", "generate_wordcloud", "topic_model",
                 "plot_topic_distribution" >>

Stages == {StageOrder[i] : i \in 1..Len(StageOrder)}

\* the stage a position of main is in
CurrentStage(p) == IF p = "topic_loop" THEN "plot_topic_distribution" ELSE p

\* the statement of main after stage st
AfterStage(st) ==
    CASE st = "load_comments"      -> "segment_comments"
      [] st = "segment_comments"   -> "sentiment_scores"
      [] st = "sentiment_scores"   -> "plot_sentiment"
      [] st = "plot_sentiment"     -> "generate_wordcloud"
      [] st = "generate_wordcloud" -> "topic_model"
      [] st = "topic_model"        -> "plot_topic_distribution"

InitMain == /\ MainIdle /\ FetchIdle /\ CrawlIdle /\ CsvIdle

\* python analyze_comments.py
MainStart ==
    /\ mPc \in {"idle", "done", "failed"} /\ run < MaxRuns
    /\ run' = run + 1
    /\ entry' = "main" /\ mPc' = "load_comments"
    /\ numTopics' = 0 /\ topicIdx' = 0
    /\ trace' = <<>> /\ reported' = FALSE /\ failedAt' = ""
    /\ UNCHANGED <<dirExists, figures, fetchVars, crawlVars, csvVars>>

\* plot_topic_distribution(lda, "figures") called with a model of k topics
PlotTopicsCall(k) ==
    /\ mPc \in {"idle", "done", "failed"} /\ run < MaxRuns
    /\ run' = run + 1
    /\ entry' = "plot_topic_distribution" /\ mPc' = "plot_topic_distribution"
    /\ numTopics' = k /\ topicIdx' = 0
    /\ trace' = <<>> /\ reported' = FALSE /\ failedAt' = ""
    /\ UNCHANGED <<dirExists, figures, fetchVars, crawlVars, csvVars>>

\* a stage that returns: main goes on to its next statement
StageReturns(st) ==
    /\ mPc = st
    /\ mPc' = AfterStage(st)
    /\ trace' = Append(trace, st)
    /\ UNCHANGED <<entry, run, topicIdx, reported, failedAt,
                   fetchVars, crawlVars, csvVars>>

MainLoad ==
    /\ StageReturns("load_comments")
    /\ UNCHANGED <<numTopics, dirExists, figures>>

MainSegment ==
    /\ StageReturns("segment_comments")
    /\ UNCHANGED <<numTopics, dirExists, figures>>

MainScore ==
    /\ StageReturns("sentiment_scores")
    /\ UNCHANGED <<numTopics, dirExists, figures>>

\* plot_sentiment: mkdir, then savefig("figures/sentiment.png")
MainPlotSentiment ==
    /\ StageReturns("plot_sentiment")
    /\ dirExists' = TRUE
    /\ figures' = [figures EXCEPT !.sentiment = run]
    /\ UNCHANGED numTopics

\* generate_wordcloud: mkdir, then to_file("figures/wordcloud.png")
MainWordcloud ==
    /\ StageReturns("generate_wordcloud")
    /\ dirExists' = TRUE
    /\ figures' = [figures EXCEPT !.wordcloud = run]
    /\ UNCHANGED numTopics

\* topic_model(tokens): num_topics keeps its default
MainTopicModel ==
    /\ StageReturns("topic_model")
    /\ numTopics' = NUM_TOPICS
    /\ UNCHANGED <<dirExists, figures>>

\* plot_topic_distribution: mkdir, then show_topics(num_topics=-1), which
\* lists every topic of the model, numbered from 0
PlotTopicsBegin ==
    /\ mPc = "plot_topic_distribution"
    /\ dirExists' = TRUE
    /\ topicIdx' = 0
    /\ mPc' = "topic_loop"
    /\ UNCHANGED <<entry, numTopics, run, figures, trace, reported, failedAt,
                   fetchVars, crawlVars, csvVars>>

\* one turn of the loop: savefig("figures/topic_{idx}.png")
PlotTopicsStepOneName ==
    /\ mPc = "topic_loop" /\ topicIdx < numTopics
    /\ figures' = [figures EXCEPT !.topic[0] = run]
    /\ topicIdx' = topicIdx + 1
    /\ UNCHANGED <<mPc, entry, numTopics, run, dirExists, trace, reported,
                   failedAt, fetchVars, crawlVars, csvVars>>

PlotTopicsStep ==
    /\ mPc = "topic_loop" /\ topicIdx < numTopics
    /\ figures' = [figures EXCEPT !.topic[topicIdx] = run]
    /\ topicIdx' = topicIdx + 1
    /\ UNCHANGED <<mPc, entry, numTopics, run, dirExists, trace, reported,
                   failedAt, fetchVars, crawlVars, csvVars>>

\* the loop is over: plot_topic_distribution returns
PlotTopicsEnd ==
    /\ mPc = "topic_loop" /\ topicIdx = numTopics
    /\ trace' = Append(trace, "plot_topic_distribution")
    /\ mPc' = IF entry = "main" THEN "print" ELSE "done"
    /\ UNCHANGED <<entry, numTopics, topicIdx, run, dirExists, figures,
                   reported, failedAt, fetchVars, crawlVars, csvVars>>

\* print("Analysis complete. ...")
MainPrint ==
    /\ mPc = "print"
    /\ reported' = TRUE
    /\ mPc' = "done"
    /\ UNCHANGED <<entry, numTopics, topicIdx, run, dirExists, figures, trace,
                   failedAt, fetchVars, crawlVars, csvVars>>

\* the stage raises: nothing catches it, the call ends.  A plotting stage
\* may have made the directory before it raised (made).
StageRaiseCleanup(made) ==
    /\ mPc \in Stages \cup {"topic_loop"}
    /\ failedAt' = CurrentStage(mPc)
    /\ mPc' = "failed"
    /\ dirExists' = dirExists
    /\ figures' = [sentiment |-> IF figures.sentiment = run THEN 0
                                 ELSE figures.sentiment,
                   wordcloud |-> IF figures.wordcloud = run THEN 0
                                 ELSE figures.wordcloud,
                   topic |-> [i \in DOMAIN figures.topic |->
                                IF figures.topic[i] = run THEN 0
                                ELSE figures.topic[i]]]
    /\ UNCHANGED <<entry, numTopics, topicIdx, run, trace, reported,
                   fetchVars, crawlVars, csvVars>>

StageRaise(made) ==
    /\ mPc \in Stages \cup {"topic_loop"}
    /\ failedAt' = CurrentStage(mPc)
    /\ mPc' = "failed"
    /\ dirExists' = (dirExists \/ (made /\ mPc \in {"plot_sentiment",
                        "generate_wordcloud", "plot_topic_distribution"}))
    /\ UNCHANGED <<entry, numTopics, topicIdx, run, figures, trace, reported,
                   fetchVars, crawlVars, csvVars>>

NextMain ==
    \/ MainStart
    \/ \E k \in 1..MaxTopics : PlotTopicsCall(k)
    \/ MainLoad
    \/ MainSegment
    \/ MainScore
    \/ MainPlotSentiment
    \/ MainWordcloud
    \/ MainTopicModel
    \/ PlotTopicsBegin
    \/ PlotTopicsStep
    \/ PlotTopicsEnd
    \/ MainPrint
    \/ \E made \in BOOLEAN : StageRaise(made)

SpecMain == InitMain /\ [][NextMain]_vars

\* the topic_<index>.png files in the directory, and those this call wrote
TopicFiles      == {i \in DOMAIN figures.topic : figures.topic[i] # 0}
TopicFilesOfRun == {i \in DOMAIN figures.topic : figures.topic[i] = run}

\* C7 as stated: when main has completed the directory contains
\* sentiment.png, wordcloud.png and exactly 3 topic_<index>.png files, and
\* after plot_topic_distribution every fitted topic has its file.
C7_DirectoryHoldsExactlyThreeTopicFiles ==
    mPc = "done" =>
        /\ \A i \in 0..(numTopics - 1) : figures.topic[i] # 0
        /\ entry = "main" =>
              /\ figures.sentiment # 0 /\ figures.wordcloud # 0
              /\ Cardinality(TopicFiles) = NUM_TOPICS

\* C7 as amended: a completed main has written sentiment.png, wordcloud.png
\* and exactly the 3 files topic_0.png .. topic_2.png; a completed
\* plot_topic_distribution on K topics has written exactly the K files
\* topic_0.png .. topic_(K-1).png; a topic file of another index is as an
\* earlier call left it.
C7_RunWritesExactlyKTopicFiles ==
    mPc = "done" =>
        /\ TopicFilesOfRun = 0..(numTopics - 1)
        /\ Cardinality(TopicFilesOfRun) = numTopics
        /\ \A i \in TopicFiles \ TopicFilesOfRun : figures.topic[i] < run
        /\ entry = "main" =>
              /\ numTopics = NUM_TOPICS
              /\ figures.sentiment = run /\ figures.wordcloud = run

C7_Witness ==
    /\ mPc = "done" /\ entry = "main" /\ reported
    /\ TopicFilesOfRun = {0, 1, 2}
    /\ figures.sentiment = run /\ figures.wordcloud = run

C7_WitnessStale ==
    /\ mPc = "done" /\ entry = "main"
    /\ TopicFilesOfRun = {0, 1, 2} /\ TopicFiles = {0, 1, 2, 3}

\* C8: main runs its stages in the order of StageOrder; when a stage has
\* raised no later stage has run or can run, completion is not reported,
\* and every file a completed stage of this call wrote is still the one it
\* wrote.
C8_StagesInOrderAndNoCleanup ==
    entry = "main" =>
        /\ trace = SubSeq(StageOrder, 1, Len(trace))
        /\ reported => (trace = StageOrder /\ mPc = "done")
        /\ mPc = "done" => reported
        /\ mPc = "failed" =>
              /\ Len(trace) < Len(StageOrder)
              /\ failedAt = StageOrder[Len(trace) + 1]
              /\ ~reported
              /\ ~ENABLED (MainLoad \/ MainSegment \/ MainScore
                           \/ MainPlotSentiment \/ MainWordcloud
                           \/ MainTopicModel \/ PlotTopicsBegin
                           \/ PlotTopicsStep \/ PlotTopicsEnd \/ MainPrint)
              /\ Len(trace) >= 4 => figures.sentiment = run
              /\ Len(trace) >= 5 => figures.wordcloud = run
              /\ \A i \in 0..(topicIdx - 1) : figures.topic[i] = run

C8_Witness ==
    /\ entry = "main" /\ mPc = "failed" /\ failedAt = "topic_model"
    /\ trace = SubSeq(StageOrder, 1, 5)
    /\ figures.sentiment = run /\ figures.wordcloud = run

C8_WitnessMidLoop ==
    /\ entry = "main" /\ mPc = "failed" /\ failedAt = "plot_topic_distribution"
    /\ topicIdx = 2 /\ figures.topic[0] = run /\ figures.topic[1] = run
    /\ figures.topic[2] # run

====
